---- MODULE Spec2Model ----
(***************************************************************************)
(* Generation pipeline of Endurely (src/app/agent_azure_ai.py,             *)
(* src/app/utils.py, src/app/models.py, src/app/main.py).                  *)
(*                                                                         *)
(*  - Spec      : one invocation of                                        *)
(*                TriathlonWorkoutAgentAzureAI._create_chat_completion     *)
(*                against a provider that answers every call either with   *)
(*                a response or with an exception of arbitrary text.       *)
(*  - SpecDays  : assign_weekdays_to_workouts applied in place to a        *)
(*                parsed program structure.                                *)
(*  - SpecExtract : _extract_json_object_text applied to a text.           *)
(*  - SpecProgram : one request to the generate_workout endpoint, through  *)
(*                generate_program in direct or progressive mode, against  *)
(*                a provider that may answer any request unusably.         *)
(*  - SpecProgressive : _generate_program_progressive called with a       *)
(*                request of any duration the request schema admits.      *)
(*  - SpecSport : the before-validator Workout.lowercase_sport applied to  *)
(*                a sport value.                                           *)
(***************************************************************************)
EXTENDS Integers, Sequences, FiniteSets, TLC

VARIABLES
    pc,                 \* position inside _create_chat_completion
    temperature,        \* argument: None or a number
    json_object,        \* argument: BOOLEAN
    max_output_tokens,  \* argument: the token budget
    effective_kwargs,   \* local dict effective_kwargs (line 91, 100, 113)
    message,            \* local str(exc) / str(exc2), as the set of table substrings it contains
    exc,                \* the exception bound by the outer except clause (line 95)
    calls,              \* every request handed to client.chat.completions.create, in order
    replies,            \* the provider's answer to each call, in order
    steps,              \* the fallback branches taken so far, in order
    outcome,            \* how the invocation ended: returned response or raised error
    program_data,       \* the dict handed to assign_weekdays_to_workouts (mutated in place)
    original,           \* program_data as it was before the first call
    runs,               \* number of completed assign_weekdays_to_workouts calls
    content,            \* argument of _extract_json_object_text, as a sequence of tokens
    extracted,          \* its return value; Unset before the call
    gpc,                \* position inside generate_workout and the generators it calls
    duration_weeks,     \* request.duration_weeks
    goal,               \* request.goal
    fitness_level,      \* request.fitness_level
    profile,            \* how the provider writes a week it answers with
    counts,             \* base_weeks, build_weeks, peak_weeks, taper_weeks
    week_num,           \* local week_num of _generate_program_progressive
    weeks,              \* local weeks of _generate_program_progressive
    week_data,          \* what the last generate_single_week call returned, if it returned
    requests,           \* every _create_chat_completion invocation made, in order
    completion,         \* what the last invocation handed back
    failure,            \* the exception generate_program raised, if any
    program,            \* the TrainingProgram generate_program returned, if any
    saved,              \* the programs handed to ProgramRepository.save_program
    status,             \* HTTP status of the endpoint's answer; 0 before it
    sport,              \* the value handed to Workout.lowercase_sport
    coerced             \* what the validator returned; Unset before the call

callerVars == <<pc, temperature, json_object, max_output_tokens, effective_kwargs,
                message, exc, calls, replies, steps, outcome>>
daysVars == <<program_data, original, runs>>
extractVars == <<content, extracted>>
programVars == <<gpc, duration_weeks, goal, fitness_level, profile, counts, week_num,
                 weeks, week_data, requests, completion, failure, program, saved, status>>
sportVars == <<sport, coerced>>
vars == <<pc, temperature, json_object, max_output_tokens, effective_kwargs,
          message, exc, calls, replies, steps, outcome, program_data, original, runs,
          content, extracted, gpc, duration_weeks, profile, counts, week_num, weeks,
          requests, completion, failure, program, saved, status, sport, coerced,
          goal, fitness_level, week_data>>

(***************************************************************************)
(* Bounds                                                                  *)
(***************************************************************************)
MaxMarkers == 3
MaxWorkouts == 8
MaxWeeks == 2
MaxRest == 2
MaxRuns == 2
MaxLen == 6
MaxSportLen == 3

(***************************************************************************)
(* Dict helpers                                                            *)
(***************************************************************************)
Put(d, k, v) == [x \in (DOMAIN d) \cup {k} |-> IF x = k THEN v ELSE d[x]]

Pop(d, k) == [x \in (DOMAIN d) \ {k} |-> d[x]]

(***************************************************************************)
(* assign_weekdays_to_workouts                                             *)
(***************************************************************************)
weekdays ==
    <<"Monday", "Tuesday", "Wednesday", "Thursday", "Friday", "Saturday", "Sunday">>

\* workout.get("is_rest_day", False)
is_rest_day(workout) ==
    IF "is_rest_day" \in DOMAIN workout THEN workout["is_rest_day"] ELSE FALSE

\* The positions of the workouts selected by a list comprehension, in order.
RECURSIVE Positions(_, _, _)
Positions(workouts, rest, i) ==
    IF i > Len(workouts) THEN <<>>
    ELSE IF is_rest_day(workouts[i]) = rest
         THEN <<i>> \o Positions(workouts, rest, i + 1)
         ELSE Positions(workouts, rest, i + 1)

\* Line 36
rest_workouts(workouts) == Positions(workouts, TRUE, 1)

\* Line 37 selecting only the active workouts that still lack a day
RECURSIVE active_workouts_OnlyMissing(_)
active_workouts_OnlyMissing(workouts) ==
    IF workouts = <<>> THEN <<>>
    ELSE LET n == Len(workouts)
             front == active_workouts_OnlyMissing(SubSeq(workouts, 1, n - 1))
         IN  IF ~is_rest_day(workouts[n]) /\ "day" \notin DOMAIN workouts[n]
             THEN Append(front, n)
             ELSE front

\* Line 37
active_workouts(workouts) == Positions(workouts, FALSE, 1)

\* Line 31, with the membership test inverted
missing_days_Inverted(workouts) ==
    \E i \in DOMAIN workouts : "day" \in DOMAIN workouts[i]

\* Line 31
missing_days(workouts) ==
    \E i \in DOMAIN workouts : "day" \notin DOMAIN workouts[i]

\* Lines 44-45 without the day_index update
assign_first_rest_IndexKept(workouts, rest) ==
    IF Len(rest) > 0
    THEN [workouts |-> [workouts EXCEPT ![rest[1]] = Put(@, "day", weekdays[1])],
          day_index |-> 0]
    ELSE [workouts |-> workouts, day_index |-> 0]

\* Lines 40-45: the first rest workout gets weekdays[0]; day_index becomes 1.
assign_first_rest(workouts, rest) ==
    IF Len(rest) > 0
    THEN [workouts |-> [workouts EXCEPT ![rest[1]] = Put(@, "day", weekdays[1])],
          day_index |-> 1]
    ELSE [workouts |-> workouts, day_index |-> 0]

\* Lines 48-51 and 54-57: one loop over the listed workouts; st is the pair
\* of the week's workouts and the 0-based day_index.
RECURSIVE assign_in_order(_, _)
assign_in_order(st, todo) ==
    IF todo = <<>> THEN st
    ELSE IF st.day_index < Len(weekdays)
         THEN assign_in_order(
                  [workouts |-> [st.workouts EXCEPT ![Head(todo)] =
                                     Put(@, "day", weekdays[st.day_index + 1])],
                   day_index |-> st.day_index + 1],
                  Tail(todo))
         ELSE assign_in_order(st, Tail(todo))

\* Lines 25-57 with the week's list rebuilt as rest workouts then active ones
assign_week_Regrouped(workouts) ==
    IF workouts = <<>> THEN workouts
    ELSE IF missing_days(workouts)
         THEN LET rest == rest_workouts(workouts)
                  active == active_workouts(workouts)
                  st0 == assign_first_rest(workouts, rest)
                  st1 == assign_in_order(st0, active)
                  st2 == assign_in_order(st1, IF rest = <<>> THEN <<>> ELSE Tail(rest))
                  order == rest \o active
              IN  [i \in 1 .. Len(order) |-> st2.workouts[order[i]]]
         ELSE workouts

\* Lines 25-57 leaving a week of more than seven workouts untouched
assign_week_SkipsOverflow(workouts) ==
    IF workouts = <<>> \/ Len(workouts) > Len(weekdays) THEN workouts
    ELSE IF missing_days(workouts)
         THEN LET rest == rest_workouts(workouts)
                  active == active_workouts(workouts)
                  st0 == assign_first_rest(workouts, rest)
                  st1 == assign_in_order(st0, active)
                  st2 == assign_in_order(st1, IF rest = <<>> THEN <<>> ELSE Tail(rest))
              IN  st2.workouts
         ELSE workouts

\* Lines 25-57: the body of the loop over the weeks, on one week's workouts.
assign_week(workouts) ==
    IF workouts = <<>> THEN workouts
    ELSE IF missing_days(workouts)
         THEN LET rest == rest_workouts(workouts)
                  active == active_workouts(workouts)
                  st0 == assign_first_rest(workouts, rest)
                  st1 == assign_in_order(st0, active)
                  st2 == assign_in_order(st1, IF rest = <<>> THEN <<>> ELSE Tail(rest))
              IN  st2.workouts
         ELSE workouts

\* Lines 24-59
assign_weekdays_to_workouts(data) ==
    [data EXCEPT !.weeks =
        [w \in DOMAIN data.weeks |->
            [data.weeks[w] EXCEPT !.workouts = assign_week(data.weeks[w].workouts)]]]

\* Parsed model output of bounded size: at most MaxWeeks weeks and MaxWorkouts
\* workouts in all, at most MaxRest of them rest days.  The day field is
\* present on no workout, on a single workout, or on all workouts of one week.
PresetDay == "Sunday"

Slots(sizes) == {s \in (DOMAIN sizes) \X (1 .. MaxWorkouts) : s[2] <= sizes[s[1]]}

RECURSIVE Total(_)
Total(sizes) == IF sizes = <<>> THEN 0 ELSE Head(sizes) + Total(Tail(sizes))

RestPatterns(sizes) == {r \in SUBSET Slots(sizes) : Cardinality(r) <= MaxRest}

PresetPatterns(sizes) ==
    {{}} \cup {{s} : s \in Slots(sizes)}
         \cup {{s \in Slots(sizes) : s[1] = w} : w \in DOMAIN sizes}

Workout(w, i, rest, preset) ==
    LET named == [title |-> <<w, i>>]
        flagged == IF rest THEN Put(named, "is_rest_day", TRUE) ELSE named
    IN  IF preset THEN Put(flagged, "day", PresetDay) ELSE flagged

Program(sizes, rest, preset) ==
    [weeks |-> [w \in DOMAIN sizes |->
        [week_number |-> w,
         workouts |-> [i \in 1 .. sizes[w] |->
                          Workout(w, i, <<w, i>> \in rest, <<w, i>> \in preset)]]]]

NoProgram == [weeks |-> <<>>]

IdleDays ==
    /\ program_data = NoProgram
    /\ original = NoProgram
    /\ runs = 0

InitDays ==
    /\ \E n \in 0 .. MaxWeeks :
        \E sizes \in [1 .. n -> 0 .. MaxWorkouts] :
            /\ Total(sizes) <= MaxWorkouts
            /\ \E rest \in RestPatterns(sizes) :
                \E preset \in PresetPatterns(sizes) :
                    program_data = Program(sizes, rest, preset)
    /\ original = program_data
    /\ runs = 0

\* One call of assign_weekdays_to_workouts on program_data, which it mutates.
Normalize ==
    /\ runs < MaxRuns
    /\ program_data' = assign_weekdays_to_workouts(program_data)
    /\ runs' = runs + 1
    /\ UNCHANGED original
    /\ UNCHANGED <<callerVars, extractVars, programVars, sportVars>>

(***************************************************************************)
(* _extract_json_object_text                                               *)
(***************************************************************************)
\* A text is a sequence of tokens: the fence delimiter, the word json,
\* the two braces, a run of whitespace, and any other run of characters.
\* The delimiter of a fenced block: three backquotes.
Fence == "fence"

Tokens == {Fence, "json", "{", "}", " ", "x"}

Texts == UNION {[1 .. n -> Tokens] : n \in 0 .. MaxLen}

Unset == <<"unset">>

\* message.content = None
NoContent == <<"None">>

\* content or ""
or_empty(text) == IF text = NoContent THEN <<>> ELSE text

\* str.strip()
RECURSIVE lstrip(_)
lstrip(s) == IF s # <<>> /\ Head(s) = " " THEN lstrip(Tail(s)) ELSE s

RECURSIVE rstrip(_)
rstrip(s) ==
    IF s # <<>> /\ s[Len(s)] = " " THEN rstrip(SubSeq(s, 1, Len(s) - 1)) ELSE s

\* str.strip() removing leading whitespace only
strip_LeftOnly(s) == lstrip(s)

strip(s) == rstrip(lstrip(s))

\* str.find(token) from position i on; 0 when absent (-1 in Python)
RECURSIVE find_from(_, _, _)
find_from(s, t, i) ==
    IF i > Len(s) THEN 0
    ELSE IF s[i] = t THEN i ELSE find_from(s, t, i + 1)

find(s, t) == find_from(s, t, 1)

\* str.rfind(token) answering the first occurrence instead of the last
rfind_First(s, t) == find_from(s, t, 1)

\* str.rfind(token); 0 when absent (-1 in Python)
RECURSIVE rfind(_, _)
rfind(s, t) ==
    IF s = <<>> THEN 0
    ELSE IF s[Len(s)] = t THEN Len(s) ELSE rfind(SubSeq(s, 1, Len(s) - 1), t)

\* Position of the first fence directly followed by json; 0 when absent
RECURSIVE find_tagged_from(_, _)
find_tagged_from(s, i) ==
    IF i + 1 > Len(s) THEN 0
    ELSE IF s[i] = Fence /\ s[i + 1] = "json" THEN i ELSE find_tagged_from(s, i + 1)

find_tagged(s) == find_tagged_from(s, 1)

\* s.split(fence)[0]: the text before the first fence, or all of it
before_fence(s) ==
    IF find(s, Fence) = 0 THEN s ELSE SubSeq(s, 1, find(s, Fence) - 1)

\* Lines 128-131: the content of the first tagged block, else of the first block
unfenced(s) ==
    IF find_tagged(s) # 0
    THEN strip(before_fence(SubSeq(s, find_tagged(s) + 2, Len(s))))
    ELSE IF find(s, Fence) # 0
         THEN strip(before_fence(SubSeq(s, find(s, Fence) + 1, Len(s))))
         ELSE s

\* Lines 134-137: the slice from the first { to the last }
braces(s) ==
    LET first_brace == find(s, "{")
        last_brace == rfind(s, "}")
    IN  IF first_brace # 0 /\ last_brace # 0 /\ last_brace > first_brace
        THEN SubSeq(s, first_brace, last_brace)
        ELSE s

\* Lines 123-139
_extract_json_object_text(s) == braces(unfenced(strip(or_empty(s))))

IdleExtract ==
    /\ content = <<>>
    /\ extracted = Unset

InitExtract ==
    /\ content \in Texts \cup {NoContent}
    /\ extracted = Unset

Extract ==
    /\ extracted = Unset
    /\ extracted' = _extract_json_object_text(content)
    /\ UNCHANGED content
    /\ UNCHANGED <<callerVars, daysVars, programVars, sportVars>>

(***************************************************************************)
(* _create_chat_completion                                                 *)
(***************************************************************************)
None == -1

Temperatures == {None, 0}

Budgets == {3000, 16000}

deployment_name == "deployment"

messages == <<"system", "user">>

\* The substrings of the provider's error text that the handler looks for.
Substrings ==
    {"Unsupported value", "temperature", "Unsupported parameter",
     "Unrecognized request argument", "response_format",
     "max_completion_tokens", "max_tokens"}

\* An error text is represented by the set of table substrings occurring in it.
ErrorTexts == {m \in SUBSET Substrings : Cardinality(m) <= MaxMarkers}

Responses ==
    {[ok |-> TRUE, text |-> {}]} \cup {[ok |-> FALSE, text |-> m] : m \in ErrorTexts}

NoError == [call |-> 0, text |-> {}]

Pending == [kind |-> "pending", call |-> 0, text |-> {}]

Returned(n) == [kind |-> "returned", call |-> n, text |-> {}]

Raised(e) == [kind |-> "raised", call |-> e.call, text |-> e.text]

common_kwargs(t, j) ==
    LET base == [model |-> deployment_name, messages |-> messages]
        withJson == IF j THEN Put(base, "response_format", "json_object") ELSE base
    IN  IF t # None THEN Put(withJson, "temperature", t) ELSE withJson

_call_with_max_completion_tokens(kwargs, budget) ==
    Put(kwargs, "max_completion_tokens", budget)

_call_with_max_tokens_NewName(kwargs, budget) ==
    Put(kwargs, "max_completion_tokens", budget)

_call_with_max_tokens(kwargs, budget) ==
    Put(kwargs, "max_tokens", budget)

\* Lines 100-101: a copy of the kwargs without the temperature entry.
without_temperature_Kept(kwargs) == kwargs

without_temperature(kwargs) == Pop(kwargs, "temperature")

\* Lines 113-114: a copy of the kwargs without the response_format entry.
without_response_format_Rebuilt(kwargs) == Pop(Pop(kwargs, "response_format"), "temperature")

\* Lines 113-114 starting again from a request with a temperature
without_response_format_Reheated(kwargs) ==
    Put(Pop(kwargs, "response_format"), "temperature", 0)

without_response_format(kwargs) == Pop(kwargs, "response_format")

TemperatureSignature(m) == "Unsupported value" \in m /\ "temperature" \in m

JsonModeSignature(kwargs, m) ==
    /\ "response_format" \in DOMAIN kwargs
    /\ ("Unsupported parameter" \in m \/ "Unrecognized request argument" \in m)
    /\ "response_format" \in m

NewLengthSignature(m) == "Unsupported parameter" \in m /\ "max_completion_tokens" \in m

LegacyLengthSignature_NameOnly(m) == "max_tokens" \in m

LegacyLengthSignature(m) == "Unsupported parameter" \in m /\ "max_tokens" \in m

\* Control is at line 107: the temperature branch was skipped or its retry failed.
PastTemperatureBranch ==
    \/ pc = "except2"
    \/ pc = "except" /\ ~TemperatureSignature(message)

InitCaller ==
    /\ pc = "try"
    /\ temperature \in Temperatures
    /\ json_object \in BOOLEAN
    /\ max_output_tokens \in Budgets
    /\ effective_kwargs = common_kwargs(temperature, json_object)
    /\ message = {}
    /\ exc = NoError
    /\ calls = <<>>
    /\ replies = <<>>
    /\ steps = <<>>
    /\ outcome = Pending

IdleCaller ==
    /\ pc = "idle"
    /\ temperature = None
    /\ json_object = TRUE
    /\ max_output_tokens = 3000
    /\ effective_kwargs = common_kwargs(None, TRUE)
    /\ message = {}
    /\ exc = NoError
    /\ calls = <<>>
    /\ replies = <<>>
    /\ steps = <<>>
    /\ outcome = Pending

\* Lines 93-96: the base attempt.
BaseCall ==
    /\ pc = "try"
    /\ \E r \in Responses :
        LET n == Len(calls) + 1 IN
        /\ calls' = Append(calls, _call_with_max_completion_tokens(effective_kwargs, max_output_tokens))
        /\ replies' = Append(replies, r)
        /\ IF r.ok
           THEN /\ pc' = "done"
                /\ outcome' = Returned(n)
                /\ UNCHANGED <<exc, message>>
           ELSE /\ pc' = "except"
                /\ exc' = [call |-> n, text |-> r.text]
                /\ message' = r.text
                /\ UNCHANGED outcome
    /\ UNCHANGED <<temperature, json_object, max_output_tokens, effective_kwargs, steps>>
    /\ UNCHANGED <<daysVars, extractVars, programVars, sportVars>>

\* Lines 99-105: retry without temperature; a failure only replaces message.
TemperatureRetry ==
    /\ pc = "except"
    /\ TemperatureSignature(message)
    /\ \E r \in Responses :
        LET n == Len(calls) + 1
            kwargs == without_temperature(effective_kwargs)
        IN
        /\ effective_kwargs' = kwargs
        /\ calls' = Append(calls, _call_with_max_completion_tokens(kwargs, max_output_tokens))
        /\ replies' = Append(replies, r)
        /\ steps' = Append(steps, "temperature")
        /\ IF r.ok
           THEN /\ pc' = "done"
                /\ outcome' = Returned(n)
                /\ UNCHANGED message
           ELSE /\ pc' = "except2"
                /\ message' = r.text
                /\ UNCHANGED outcome
    /\ UNCHANGED <<temperature, json_object, max_output_tokens, exc>>
    /\ UNCHANGED <<daysVars, extractVars, programVars, sportVars>>

\* Lines 108-115: retry without response_format; its exception propagates.
JsonModeRetry ==
    /\ PastTemperatureBranch
    /\ JsonModeSignature(effective_kwargs, message)
    /\ \E r \in Responses :
        LET n == Len(calls) + 1
            kwargs == without_response_format(effective_kwargs)
        IN
        /\ effective_kwargs' = kwargs
        /\ calls' = Append(calls, _call_with_max_completion_tokens(kwargs, max_output_tokens))
        /\ replies' = Append(replies, r)
        /\ steps' = Append(steps, "response_format")
        /\ outcome' = IF r.ok THEN Returned(n) ELSE Raised([call |-> n, text |-> r.text])
    /\ pc' = "done"
    /\ UNCHANGED <<temperature, json_object, max_output_tokens, exc, message>>
    /\ UNCHANGED <<daysVars, extractVars, programVars, sportVars>>

\* Lines 117-118: retry with the legacy parameter name; its exception propagates.
LegacyLengthRetry ==
    /\ PastTemperatureBranch
    /\ ~JsonModeSignature(effective_kwargs, message)
    /\ NewLengthSignature(message)
    /\ \E r \in Responses :
        LET n == Len(calls) + 1 IN
        /\ calls' = Append(calls, _call_with_max_tokens(effective_kwargs, max_output_tokens))
        /\ replies' = Append(replies, r)
        /\ steps' = Append(steps, "max_completion_tokens")
        /\ outcome' = IF r.ok THEN Returned(n) ELSE Raised([call |-> n, text |-> r.text])
    /\ pc' = "done"
    /\ UNCHANGED <<temperature, json_object, max_output_tokens, effective_kwargs, exc, message>>
    /\ UNCHANGED <<daysVars, extractVars, programVars, sportVars>>

\* Lines 119-120: retry with the new-style parameter name; its exception propagates.
NewLengthRetry ==
    /\ PastTemperatureBranch
    /\ ~JsonModeSignature(effective_kwargs, message)
    /\ ~NewLengthSignature(message)
    /\ LegacyLengthSignature(message)
    /\ \E r \in Responses :
        LET n == Len(calls) + 1 IN
        /\ calls' = Append(calls, _call_with_max_completion_tokens(effective_kwargs, max_output_tokens))
        /\ replies' = Append(replies, r)
        /\ steps' = Append(steps, "max_tokens")
        /\ outcome' = IF r.ok THEN Returned(n) ELSE Raised([call |-> n, text |-> r.text])
    /\ pc' = "done"
    /\ UNCHANGED <<temperature, json_object, max_output_tokens, effective_kwargs, exc, message>>
    /\ UNCHANGED <<daysVars, extractVars, programVars, sportVars>>

\* Line 121 left out: the handler falls off its end and the function returns None.
Reraise_FallsThrough ==
    /\ PastTemperatureBranch
    /\ ~JsonModeSignature(effective_kwargs, message)
    /\ ~NewLengthSignature(message)
    /\ ~LegacyLengthSignature(message)
    /\ pc' = "done"
    /\ outcome' = Returned(0)
    /\ UNCHANGED <<temperature, json_object, max_output_tokens, effective_kwargs,
                   exc, message, calls, replies, steps>>
    /\ UNCHANGED <<daysVars, extractVars, programVars, sportVars>>

\* Line 121: the bare raise re-raises the exception of the outer except clause.
Reraise ==
    /\ PastTemperatureBranch
    /\ ~JsonModeSignature(effective_kwargs, message)
    /\ ~NewLengthSignature(message)
    /\ ~LegacyLengthSignature(message)
    /\ pc' = "done"
    /\ outcome' = Raised(exc)
    /\ UNCHANGED <<temperature, json_object, max_output_tokens, effective_kwargs,
                   exc, message, calls, replies, steps>>
    /\ UNCHANGED <<daysVars, extractVars, programVars, sportVars>>

(***************************************************************************)
(* generate_workout, generate_program, _generate_program_progressive,      *)
(* generate_single_week                                                    *)
(***************************************************************************)
\* WorkoutRequest.duration_weeks: Field(ge=4, le=52)
MinDuration == 4

MaxDuration == 52

Durations == MinDuration .. MaxDuration

\* request.goal and request.fitness_level
Athletes == {<<"sprint", "beginner">>, <<"olympic", "advanced">>}

\* The requests served: every duration for the first athlete, the durations
\* around the mode threshold for the others.
Requests ==
    {r \in Durations \X Athletes : r[2] = <<"sprint", "beginner">> \/ r[1] <= 8}

\* JSON null as the value of a day and of a sport
Null == "null"

NullSport == <<"null">>

\* The text of a JSON object: its braces around an opaque body.  What the
\* body denotes travels with the completion as its json field.
ObjectText == <<"{", "x", "}">>

FencedObjectText == <<"x", Fence, "json", "{", "x", "}", Fence, "x">>

TruncatedText == <<"{", "x">>

\* Logical completion requests made by the two generators
ProgramRequest ==
    [kind |-> "program", week_number |-> 0, phase |-> "", max_output_tokens |-> 16000]

WeekRequest(week_number, phase) ==
    [kind |-> "week", week_number |-> week_number, phase |-> phase,
     max_output_tokens |-> 3000]

\* Workouts of one week as the model writes them
DatedWorkouts ==
    <<[sport |-> <<"swim">>, title |-> "a", day |-> "Tuesday"],
      [sport |-> <<"Bike">>, title |-> "b", day |-> "Thursday"]>>

UndatedWorkouts ==
    <<[sport |-> <<"run">>, title |-> "a"],
      [sport |-> <<"rest">>, title |-> "b", is_rest_day |-> TRUE],
      [sport |-> <<"bike", "/", "run">>, title |-> "c"]>>

PartlyDatedWorkouts ==
    <<[sport |-> <<"yoga">>, title |-> "a", day |-> "Sunday"],
      [sport |-> <<" ", "Run">>, title |-> "b"]>>

OverflowWorkouts == [i \in 1 .. Len(weekdays) + 1 |-> [sport |-> <<"run">>, title |-> "a"]]

NullDayWorkouts == <<[sport |-> <<"run">>, title |-> "a", day |-> Null]>>

UnknownDayWorkouts == <<[sport |-> <<"run">>, title |-> "a", day |-> "monday"]>>

NullSportWorkouts == <<[sport |-> NullSport, title |-> "a", day |-> "Monday"]>>

Shapes == {"dated", "undated", "partly"}

Numberings == {"requested", "one"}

Profiles == [shape : Shapes, numbering : Numberings]

ShapeWorkouts(shape) ==
    CASE shape = "dated" -> DatedWorkouts
      [] shape = "undated" -> UndatedWorkouts
      [] shape = "partly" -> PartlyDatedWorkouts

\* The week object a provider of the given profile writes for week k
WeekObject(p, k) ==
    [week_number |-> IF p.numbering = "requested" THEN k ELSE 1,
     focus |-> "focus",
     workouts |-> ShapeWorkouts(p.shape)]

\* Week objects that parse as JSON and fail the WeekPlan schema
InvalidWeekObjects ==
    {[week_number |-> 1, focus |-> "focus", workouts |-> w] :
        w \in {OverflowWorkouts, NullDayWorkouts, UnknownDayWorkouts, NullSportWorkouts}}
    \cup {[week_number |-> 1, workouts |-> DatedWorkouts]}

ProgramObject(n, first, p) ==
    [goal |-> "sprint", fitness_level |-> "beginner", duration_weeks |-> n,
     weeks |-> [k \in 1 .. n |-> IF k = 1 THEN first ELSE WeekObject(p, k)]]

NoWeek == [workouts |-> <<>>]

\* What _create_chat_completion hands back: an exception, or a response
\* with choices[0].finish_reason, choices[0].message.content and, when the
\* content holds a JSON object, what that object denotes.
ProviderError ==
    [raised |-> TRUE, finish_reason |-> "", content |-> NoContent, json |-> NoWeek]

Completion(finish_reason, text, object) ==
    [raised |-> FALSE, finish_reason |-> finish_reason, content |-> text, json |-> object]

NoCompletion == Completion("", NoContent, NoWeek)

FinishReasons == {"stop", "length"}

\* Completions without a usable object
Unusable ==
    {Completion(f, t, NoWeek) :
        f \in FinishReasons, t \in {NoContent, <<" ">>, <<"x">>, TruncatedText}}

WeekCompletions(p, k) ==
    {ProviderError} \cup Unusable
    \cup {Completion(f, t, WeekObject(p, k)) :
            f \in FinishReasons, t \in {ObjectText, FencedObjectText}}
    \cup {Completion("stop", ObjectText, o) : o \in InvalidWeekObjects}

ProgramCompletions(p, n) ==
    {ProviderError} \cup Unusable
    \cup {Completion(f, t, ProgramObject(n, WeekObject(p, 1), p)) :
            f \in FinishReasons, t \in {ObjectText, FencedObjectText}}
    \cup {Completion("stop", ObjectText, ProgramObject(n, o, p)) : o \in InvalidWeekObjects}

\* json.loads succeeds exactly on the text of one JSON object
is_json(text) == text = ObjectText

\* Failures, by the leading words of their message
NoFailure == [text |-> "", finish_reason |-> ""]

CompletionFailed == [text |-> "provider error", finish_reason |-> ""]

NoContentFailure(finish_reason) ==
    [text |-> "Model returned no content.", finish_reason |-> finish_reason]

TokenLimitFailure ==
    [text |-> "Model hit token limit (finish_reason='length').", finish_reason |-> "length"]

InvalidJsonFailure == [text |-> "Model did not return valid JSON.", finish_reason |-> ""]

ValidationFailure == [text |-> "validation error", finish_reason |-> ""]

\* str.lower() on a sport string, token by token
lower(v) ==
    [i \in DOMAIN v |->
        CASE v[i] = "Swim" -> "swim"
          [] v[i] = "Bike" -> "bike"
          [] v[i] = "Run" -> "run"
          [] v[i] = "Rest" -> "rest"
          [] OTHER -> v[i]]

Sport == {<<"swim">>, <<"bike">>, <<"run">>}

\* Workout.lowercase_sport without the strip() of line 90
lowercase_sport_Unstripped(v) ==
    IF v # NullSport
    THEN LET s == lower(v)
         IN  IF s = <<"rest">> THEN <<"swim">>
             ELSE IF (\E i \in DOMAIN s : s[i] = "bike") /\ (\E i \in DOMAIN s : s[i] = "run")
                  THEN <<"bike">>
                  ELSE IF s \in Sport THEN s ELSE <<"run">>
    ELSE v

\* Workout.lowercase_sport
lowercase_sport(v) ==
    IF v # NullSport
    THEN LET s == strip(lower(v))
         IN  IF s = <<"rest">> THEN <<"swim">>
             ELSE IF (\E i \in DOMAIN s : s[i] = "bike") /\ (\E i \in DOMAIN s : s[i] = "run")
                  THEN <<"bike">>
                  ELSE IF s \in Sport THEN s ELSE <<"run">>
    ELSE v

\* A sport string is a sequence of tokens: the four words the validator
\* knows, written in lower case or capitalised, a run of whitespace, and any
\* other run of characters.
SportTokens == {"swim", "bike", "run", "rest", "Swim", "Bike", "Run", "Rest", " ", "x"}

SportTexts == UNION {[1 .. n -> SportTokens] : n \in 0 .. MaxSportLen}

IdleSport ==
    /\ sport = <<>>
    /\ coerced = Unset

InitSport ==
    /\ sport \in SportTexts \cup {NullSport}
    /\ coerced = Unset

\* The before-validator of Workout.sport runs on the value
Coerce ==
    /\ coerced = Unset
    /\ coerced' = lowercase_sport(sport)
    /\ UNCHANGED sport
    /\ UNCHANGED <<callerVars, daysVars, extractVars, programVars>>

Weekday == {weekdays[i] : i \in DOMAIN weekdays}

\* Workout(**d) with day accepted whatever its value
valid_Workout_AnyDay(d) ==
    /\ {"sport", "title", "day"} \subseteq DOMAIN d
    /\ lowercase_sport(d.sport) \in Sport

\* Workout(**d) passes validation
valid_Workout(d) ==
    /\ {"sport", "title", "day"} \subseteq DOMAIN d
    /\ lowercase_sport(d.sport) \in Sport
    /\ d.day \in Weekday

\* The Workout built from d
new_Workout(d) ==
    [sport |-> lowercase_sport(d.sport), title |-> d.title, day |-> d.day,
     is_rest_day |-> is_rest_day(d)]

\* WeekPlan(**d) passes validation
valid_WeekPlan(d) ==
    /\ {"week_number", "focus", "workouts"} \subseteq DOMAIN d
    /\ \A i \in DOMAIN d.workouts : valid_Workout(d.workouts[i])

\* The WeekPlan built from d
new_WeekPlan(d) ==
    [week_number |-> d.week_number, focus |-> d.focus,
     workouts |-> [i \in DOMAIN d.workouts |-> new_Workout(d.workouts[i])]]

\* TrainingProgram(**d) passes validation
valid_TrainingProgram(d) ==
    /\ {"goal", "fitness_level", "duration_weeks", "weeks"} \subseteq DOMAIN d
    /\ \A k \in DOMAIN d.weeks : valid_WeekPlan(d.weeks[k])

\* The TrainingProgram built from d
new_TrainingProgram(d) ==
    [goal |-> d.goal, fitness_level |-> d.fitness_level,
     duration_weeks |-> d.duration_weeks,
     weeks |-> [k \in DOMAIN d.weeks |-> new_WeekPlan(d.weeks[k])]]

\* Line 144 with the threshold one week lower
progressive_FromSix(total_weeks) == total_weeks > 5

\* Line 144
progressive(total_weeks) == total_weeks > 6

\* Lines 204-208 rounding to the nearest integer instead of truncating
phase_weeks_Rounded(total_weeks) ==
    LET base_weeks == (total_weeks * 6 + 5) \div 10
        build_weeks == (total_weeks * 25 + 50) \div 100
        tenth == (total_weeks + 5) \div 10
        peak_weeks == IF tenth > 1 THEN tenth ELSE 1
    IN  <<base_weeks, build_weeks, peak_weeks,
          total_weeks - base_weeks - build_weeks - peak_weeks>>

\* Lines 204-208; int() of the products is the floor of the exact quotients
phase_weeks(total_weeks) ==
    LET base_weeks == (total_weeks * 6) \div 10
        build_weeks == (total_weeks * 25) \div 100
        tenth == total_weeks \div 10
        peak_weeks == IF tenth > 1 THEN tenth ELSE 1
    IN  <<base_weeks, build_weeks, peak_weeks,
          total_weeks - base_weeks - build_weeks - peak_weeks>>

\* Lines 214-219 with the Peak entry ahead of the Build entry
phase_names_PeakFirst == <<"Base", "Peak", "Build", "Taper">>

phase_names == <<"Base", "Build", "Peak", "Taper">>

\* range(phase_weeks) of the phases before phase p, added up
RECURSIVE iterations_before(_, _)
iterations_before(allocation, p) ==
    IF p = 1 THEN 0
    ELSE iterations_before(allocation, p - 1)
         + (IF allocation[p - 1] > 0 THEN allocation[p - 1] ELSE 0)

\* Number of iterations of the nested loops at lines 214-227
iterations(allocation) == iterations_before(allocation, Len(allocation) + 1)

\* phase_name in the iteration in which week_num has the given value
phase_of(allocation, week_number) ==
    phase_names[CHOOSE p \in DOMAIN allocation :
                    /\ iterations_before(allocation, p) < week_number
                    /\ week_number <= iterations_before(allocation, p + 1)]

\* Lines 157-196 of generate_program on a response: the failure it raises,
\* NoFailure when it returns
program_failure(response) ==
    LET text == _extract_json_object_text(or_empty(response.content))
    IN  IF strip(text) = <<>> THEN NoContentFailure(response.finish_reason)
        ELSE IF response.finish_reason = "length" THEN TokenLimitFailure
        ELSE IF ~is_json(text) THEN InvalidJsonFailure
        ELSE IF ~valid_TrainingProgram(assign_weekdays_to_workouts(response.json))
             THEN ValidationFailure
             ELSE NoFailure

\* Lines 300-312 of generate_single_week on a response
single_week_failure(response) ==
    IF ~is_json(_extract_json_object_text(response.content)) THEN InvalidJsonFailure
    ELSE NoFailure

\* Lines 303-306: the dict generate_single_week returns
single_week(response) ==
    assign_weekdays_to_workouts([weeks |-> <<response.json>>]).weeks[1]

\* Lines 220-225 of the loop body on a response
week_failure(response) ==
    IF single_week_failure(response) # NoFailure THEN single_week_failure(response)
    ELSE IF ~valid_WeekPlan(single_week(response)) THEN ValidationFailure
    ELSE NoFailure

IdleProgram ==
    /\ gpc = "idle"
    /\ duration_weeks = MinDuration
    /\ goal = "sprint"
    /\ fitness_level = "beginner"
    /\ week_data = NoWeek
    /\ profile = [shape |-> "dated", numbering |-> "requested"]
    /\ counts = <<>>
    /\ week_num = 1
    /\ weeks = <<>>
    /\ requests = <<>>
    /\ completion = NoCompletion
    /\ failure = NoFailure
    /\ program = NoProgram
    /\ saved = <<>>
    /\ status = 0

\* The request as validated by WorkoutRequest, and the provider behind
\* the agent; nothing has run yet.
NewRequest ==
    /\ \E r \in Requests :
        /\ duration_weeks = r[1]
        /\ goal = r[2][1]
        /\ fitness_level = r[2][2]
    /\ profile \in Profiles
    /\ counts = <<>>
    /\ week_num = 1
    /\ weeks = <<>>
    /\ week_data = NoWeek
    /\ requests = <<>>
    /\ completion = NoCompletion
    /\ failure = NoFailure
    /\ program = NoProgram
    /\ saved = <<>>
    /\ status = 0

\* The endpoint has received the request
InitProgram ==
    /\ gpc = "request"
    /\ NewRequest

\* _generate_program_progressive has been called with the request
InitProgressive ==
    /\ gpc = "called"
    /\ NewRequest

\* generate_program, lines 141-196, for a request it serves itself
generate_program ==
    /\ gpc = "request"
    /\ ~progressive(duration_weeks)
    /\ \E response \in ProgramCompletions(profile, duration_weeks) :
        /\ requests' = Append(requests, ProgramRequest)
        /\ completion' = response
        /\ IF response.raised
           THEN /\ failure' = CompletionFailed
                /\ gpc' = "raised"
                /\ UNCHANGED program
           ELSE IF program_failure(response) # NoFailure
           THEN /\ failure' = program_failure(response)
                /\ gpc' = "raised"
                /\ UNCHANGED program
           ELSE /\ program' = new_TrainingProgram(assign_weekdays_to_workouts(response.json))
                /\ gpc' = "returned"
                /\ UNCHANGED failure
    /\ UNCHANGED <<duration_weeks, goal, fitness_level, profile, counts, week_num, weeks,
                   week_data, saved, status>>
    /\ UNCHANGED <<callerVars, daysVars, extractVars, sportVars>>

\* _generate_program_progressive up to line 211, entered from generate_program
\* (lines 144-145) or called with the request
_generate_program_progressive ==
    /\ \/ gpc = "request" /\ progressive(duration_weeks)
       \/ gpc = "called"
    /\ counts' = phase_weeks(duration_weeks)
    /\ weeks' = <<>>
    /\ week_num' = 1
    /\ gpc' = "weeks"
    /\ UNCHANGED <<duration_weeks, goal, fitness_level, profile, week_data, requests,
                   completion, failure, program, saved, status>>
    /\ UNCHANGED <<callerVars, daysVars, extractVars, sportVars>>

\* One iteration of the loops at lines 214-227, generate_single_week included
generate_single_week ==
    /\ gpc = "weeks"
    /\ week_num <= iterations(counts)
    /\ \E response \in WeekCompletions(profile, week_num) :
        /\ requests' = Append(requests, WeekRequest(week_num, phase_of(counts, week_num)))
        /\ completion' = response
        /\ week_data' =
               IF response.raised \/ single_week_failure(response) # NoFailure
               THEN week_data
               ELSE single_week(response)
        /\ IF response.raised
           THEN /\ failure' = CompletionFailed
                /\ gpc' = "raised"
                /\ UNCHANGED <<weeks, week_num>>
           ELSE IF week_failure(response) # NoFailure
           THEN /\ failure' = week_failure(response)
                /\ gpc' = "raised"
                /\ UNCHANGED <<weeks, week_num>>
           ELSE /\ weeks' = Append(weeks, new_WeekPlan(single_week(response)))
                /\ week_num' = week_num + 1
                /\ UNCHANGED <<failure, gpc>>
    /\ UNCHANGED <<duration_weeks, goal, fitness_level, profile, counts, program, saved,
                   status>>
    /\ UNCHANGED <<callerVars, daysVars, extractVars, sportVars>>

\* Lines 229-238 with the goal and level of a default athlete
build_program_DefaultAthlete ==
    /\ gpc = "weeks"
    /\ week_num > iterations(counts)
    /\ program' = [goal |-> "sprint", fitness_level |-> "beginner",
                    duration_weeks |-> duration_weeks, weeks |-> weeks]
    /\ gpc' = "returned"
    /\ UNCHANGED <<duration_weeks, goal, fitness_level, profile, counts, week_num, weeks,
                   week_data, requests, completion, failure, saved, status>>
    /\ UNCHANGED <<callerVars, daysVars, extractVars, sportVars>>

\* Lines 229-238: the program built from the collected weeks
build_program ==
    /\ gpc = "weeks"
    /\ week_num > iterations(counts)
    /\ program' = [goal |-> goal, fitness_level |-> fitness_level,
                    duration_weeks |-> duration_weeks, weeks |-> weeks]
    /\ gpc' = "returned"
    /\ UNCHANGED <<duration_weeks, goal, fitness_level, profile, counts, week_num, weeks,
                   week_data, requests, completion, failure, saved, status>>
    /\ UNCHANGED <<callerVars, daysVars, extractVars, sportVars>>

\* main.py lines 196-213: generate_program returned; the program is saved
save_program ==
    /\ gpc = "returned"
    /\ saved' = Append(saved, program)
    /\ status' = 200
    /\ gpc' = "done"
    /\ UNCHANGED <<duration_weeks, goal, fitness_level, profile, counts, week_num, weeks,
                   week_data, requests, completion, failure, program>>
    /\ UNCHANGED <<callerVars, daysVars, extractVars, sportVars>>

\* main.py lines 214-215 saving the weeks collected before the failure
error_response_SavesPartial ==
    /\ gpc = "raised"
    /\ saved' = Append(saved, [goal |-> goal, fitness_level |-> fitness_level,
                                duration_weeks |-> duration_weeks, weeks |-> weeks])
    /\ status' = 500
    /\ gpc' = "done"
    /\ UNCHANGED <<duration_weeks, goal, fitness_level, profile, counts, week_num, weeks,
                   week_data, requests, completion, failure, program>>
    /\ UNCHANGED <<callerVars, daysVars, extractVars, sportVars>>

\* main.py lines 214-215: generate_program raised; the endpoint answers 500
error_response ==
    /\ gpc = "raised"
    /\ status' = 500
    /\ gpc' = "done"
    /\ UNCHANGED <<duration_weeks, goal, fitness_level, profile, counts, week_num, weeks,
                   week_data, requests, completion, failure, program, saved>>
    /\ UNCHANGED <<callerVars, daysVars, extractVars, sportVars>>

Init == InitCaller /\ IdleDays /\ IdleExtract /\ IdleProgram /\ IdleSport

Next ==
    \/ BaseCall
    \/ TemperatureRetry
    \/ JsonModeRetry
    \/ LegacyLengthRetry
    \/ NewLengthRetry
    \/ Reraise

Spec == Init /\ [][Next]_vars

NextDays == Normalize

DaysInit == IdleCaller /\ InitDays /\ IdleExtract /\ IdleProgram /\ IdleSport

SpecDays == DaysInit /\ [][NextDays]_vars

NextExtract == Extract

ExtractInit == IdleCaller /\ IdleDays /\ InitExtract /\ IdleProgram /\ IdleSport

SpecExtract == ExtractInit /\ [][NextExtract]_vars

NextProgram ==
    \/ generate_program
    \/ _generate_program_progressive
    \/ generate_single_week
    \/ build_program
    \/ save_program
    \/ error_response

ProgramInit == IdleCaller /\ IdleDays /\ IdleExtract /\ InitProgram /\ IdleSport

SpecProgram == ProgramInit /\ [][NextProgram]_vars

NextProgressive ==
    \/ _generate_program_progressive
    \/ generate_single_week
    \/ build_program

ProgressiveInit == IdleCaller /\ IdleDays /\ IdleExtract /\ InitProgressive /\ IdleSport

SpecProgressive == ProgressiveInit /\ [][NextProgressive]_vars

NextSport == Coerce

SportInit == IdleCaller /\ IdleDays /\ IdleExtract /\ IdleProgram /\ InitSport

SpecSport == SportInit /\ [][NextSport]_vars

\* The function body runs to completion: no step of it waits on anything but
\* the provider's answer, and the provider answers every call.
FairSpec == Init /\ [][Next]_vars /\ WF_vars(Next)

(***************************************************************************)
(* Properties of _create_chat_completion                                   *)
(***************************************************************************)
\* The keys of a request other than the output-length parameter.
OtherKeys == {"model", "messages", "response_format", "temperature"}

\* Requests a and b agree on every key of ks: present in both with the same
\* value, or absent from both.
SameOn(a, b, ks) ==
    \A k \in ks :
        /\ (k \in DOMAIN a) <=> (k \in DOMAIN b)
        /\ (k \in DOMAIN a) => a[k] = b[k]

\* The four error signatures of the fallback ladder, as properties of the text.
TemperatureText(m) == {"Unsupported value", "temperature"} \subseteq m

JsonModeText(m) ==
    \/ {"Unsupported parameter", "response_format"} \subseteq m
    \/ {"Unrecognized request argument", "response_format"} \subseteq m

NewLengthText(m) == {"Unsupported parameter", "max_completion_tokens"} \subseteq m

LegacyLengthText(m) == {"Unsupported parameter", "max_tokens"} \subseteq m

BaseRejected == Len(replies) >= 1 /\ ~replies[1].ok

Count(seq, x) == Cardinality({i \in DOMAIN seq : seq[i] = x})

\* C1: when the base call (new-style max_completion_tokens) is rejected with
\* the new-style length-parameter signature, recognized as such by the ladder
\* (the text carries neither the temperature signature nor, with JSON mode on,
\* the JSON-mode signature), the second provider call carries max_tokens with
\* the same budget and the same model, messages, response_format and
\* temperature as the base call; if the provider accepts it, the invocation
\* returns that second call's response and makes no further call.
C1_LengthFallback ==
    (/\ BaseRejected
     /\ NewLengthText(replies[1].text)
     /\ ~TemperatureText(replies[1].text)
     /\ ~("response_format" \in DOMAIN calls[1] /\ JsonModeText(replies[1].text)))
    => /\ "max_completion_tokens" \in DOMAIN calls[1]
       /\ "max_tokens" \notin DOMAIN calls[1]
       /\ pc = "done" => Len(calls) = 2
       /\ Len(calls) >= 2 =>
            /\ "max_tokens" \in DOMAIN calls[2]
            /\ "max_completion_tokens" \notin DOMAIN calls[2]
            /\ calls[2]["max_tokens"] = calls[1]["max_completion_tokens"]
            /\ calls[2]["max_tokens"] = max_output_tokens
            /\ SameOn(calls[1], calls[2], OtherKeys)
            /\ replies[2].ok => outcome = Returned(2)

C1_Witness ==
    /\ pc = "done"
    /\ outcome = Returned(2)
    /\ steps = <<"max_completion_tokens">>
    /\ NewLengthText(replies[1].text)
    /\ "temperature" \in DOMAIN calls[2]
    /\ "response_format" \in DOMAIN calls[2]
    /\ "max_tokens" \in DOMAIN calls[2]

\* C2: when the base call has JSON mode on and is rejected with the JSON-mode
\* signature only (no temperature signature), the second provider call has
\* response_format removed and the same length parameter (name and value),
\* temperature, model and messages as the base call; if the provider accepts
\* it, the invocation returns that second call's response.
C2_JsonModeFallback ==
    (/\ BaseRejected
     /\ "response_format" \in DOMAIN calls[1]
     /\ JsonModeText(replies[1].text)
     /\ ~TemperatureText(replies[1].text))
    => /\ pc = "done" => Len(calls) = 2
       /\ Len(calls) >= 2 =>
            /\ "response_format" \notin DOMAIN calls[2]
            /\ SameOn(calls[1], calls[2],
                      {"model", "messages", "temperature", "max_completion_tokens", "max_tokens"})
            /\ calls[2]["max_completion_tokens"] = max_output_tokens
            /\ replies[2].ok => outcome = Returned(2)

C2_Witness ==
    /\ pc = "done"
    /\ outcome = Returned(2)
    /\ steps = <<"response_format">>
    /\ "response_format" \in DOMAIN calls[1]
    /\ JsonModeText(replies[1].text)
    /\ "temperature" \in DOMAIN calls[1]
    /\ "temperature" \in DOMAIN calls[2]
    /\ "response_format" \notin DOMAIN calls[2]

\* C3: when the caller supplied a temperature and the base call is rejected
\* with the temperature signature, the second provider call is the base call
\* without temperature (same new-style length parameter, response_format,
\* model and messages), the temperature step is taken exactly once, and if the
\* provider accepts that second call its response is returned.
C3_TemperatureFallback ==
    (/\ BaseRejected
     /\ temperature # None
     /\ TemperatureText(replies[1].text))
    => /\ "temperature" \in DOMAIN calls[1]
       /\ pc = "done" => Len(calls) >= 2
       /\ Len(calls) >= 2 =>
            /\ "temperature" \notin DOMAIN calls[2]
            /\ SameOn(calls[1], calls[2],
                      {"model", "messages", "response_format", "max_completion_tokens", "max_tokens"})
            /\ calls[2]["max_completion_tokens"] = max_output_tokens
            /\ Count(steps, "temperature") = 1
            /\ steps[1] = "temperature"
            /\ replies[2].ok => (outcome = Returned(2) /\ Len(calls) = 2)

C3_Witness ==
    /\ pc = "done"
    /\ temperature # None
    /\ outcome = Returned(2)
    /\ steps = <<"temperature">>
    /\ "temperature" \in DOMAIN calls[1]
    /\ "temperature" \notin DOMAIN calls[2]
    /\ "response_format" \in DOMAIN calls[2]

\* C4: whenever a request that carries the legacy max_tokens parameter is
\* rejected with the legacy length-parameter signature, the invocation goes on
\* to resubmit the request with max_completion_tokens instead of ending with
\* that failure.
C4_LegacyRejectionResubmitted ==
    \A i \in DOMAIN calls :
        (/\ pc = "done"
         /\ "max_tokens" \in DOMAIN calls[i]
         /\ ~replies[i].ok
         /\ LegacyLengthText(replies[i].text))
        => /\ Len(calls) > i
           /\ "max_completion_tokens" \in DOMAIN calls[i + 1]

\* C5: one invocation issues at most 4 provider calls, takes each fallback
\* branch at most once, ends only by returning the response of an accepted
\* call or by raising the error of a rejected call, and always ends.
C5_Bounded ==
    /\ Len(calls) <= 4
    /\ \A s \in {"temperature", "response_format", "max_completion_tokens", "max_tokens"} :
           Count(steps, s) <= 1
    /\ pc = "done" =>
          \/ /\ outcome.kind = "returned"
             /\ outcome.call \in DOMAIN replies
             /\ replies[outcome.call].ok
          \/ /\ outcome.kind = "raised"
             /\ outcome.call \in DOMAIN replies
             /\ ~replies[outcome.call].ok

C5_BoundedRetries == []C5_Bounded /\ <>(pc = "done")

C5_Witness ==
    /\ pc = "done"
    /\ Len(calls) = 3
    /\ Len(steps) = 2
    /\ outcome.kind = "raised"

\* C6: if the base call fails with a text that matches none of the four
\* signatures (temperature, JSON mode, new-style length, legacy length), the
\* invocation makes exactly one provider call and raises that call's error.
C6_NoBlindRetry ==
    (/\ BaseRejected
     /\ ~TemperatureText(replies[1].text)
     /\ ~JsonModeText(replies[1].text)
     /\ ~NewLengthText(replies[1].text)
     /\ ~LegacyLengthText(replies[1].text))
    => /\ Len(calls) = 1
       /\ pc = "done" => outcome = Raised([call |-> 1, text |-> replies[1].text])

C6_Witness ==
    /\ pc = "done"
    /\ Len(calls) = 1
    /\ outcome.kind = "raised"
    /\ "max_tokens" \in replies[1].text
    /\ "temperature" \in replies[1].text
    /\ "response_format" \in replies[1].text

\* C7: whenever the invocation ends in failure, the error raised is the error
\* of the last provider call issued.
C7_LastErrorSurfaced ==
    (pc = "done" /\ outcome.kind = "raised")
    => /\ outcome.call = Len(calls)
       /\ outcome.text = replies[Len(calls)].text

(***************************************************************************)
(* Properties of assign_weekdays_to_workouts                               *)
(***************************************************************************)
HasDay(workout) == "day" \in DOMAIN workout

IsRest(workout) == "is_rest_day" \in DOMAIN workout /\ workout["is_rest_day"]

WeekIds == DOMAIN original.weeks

Before(w) == original.weeks[w].workouts

After(w) == program_data.weeks[w].workouts

\* Number of rest (rest = TRUE) or active (rest = FALSE) workouts of the week
\* at positions 1 .. i.
CountUpTo(ws, rest, i) == Cardinality({j \in 1 .. i : IsRest(ws[j]) = rest})

\* The weekday the assignment policy gives to position i of a week without
\* day fields, as a 1-based index into Monday .. Sunday.
PolicyDay(ws, i) ==
    LET r == CountUpTo(ws, TRUE, Len(ws))
        a == CountUpTo(ws, FALSE, Len(ws))
    IN  IF IsRest(ws[i])
        THEN IF CountUpTo(ws, TRUE, i) = 1 THEN 1
             ELSE a + CountUpTo(ws, TRUE, i)
        ELSE (IF r >= 1 THEN 1 ELSE 0) + CountUpTo(ws, FALSE, i)

\* C8: after one call, in every week that had no day field and at most 7
\* workouts, the first rest workout has Monday, the i-th active workout has
\* the i-th weekday after the ones already used (from Tuesday when there is a
\* rest workout, from Monday otherwise), and the second and later rest
\* workouts have the next unused weekdays in order.
C8_DayAssignmentPolicy ==
    runs = 1 =>
        \A w \in WeekIds :
            (/\ \A i \in DOMAIN Before(w) : ~HasDay(Before(w)[i])
             /\ Len(Before(w)) <= 7)
            => /\ Len(After(w)) = Len(Before(w))
               /\ \A i \in DOMAIN Before(w) :
                    /\ HasDay(After(w)[i])
                    /\ After(w)[i]["day"] = weekdays[PolicyDay(Before(w), i)]
                    /\ After(w)[i]["title"] = Before(w)[i]["title"]

\* Five active workouts and one rest workout (third in the list), no day
\* fields: rest on Monday, the active ones on Tuesday .. Saturday in order.
C8_Witness ==
    /\ runs = 1
    /\ \E w \in WeekIds :
        /\ Len(Before(w)) = 6
        /\ \A i \in 1 .. 6 : ~HasDay(Before(w)[i]) /\ (IsRest(Before(w)[i]) <=> i = 3)
        /\ [i \in 1 .. 6 |-> After(w)[i]["day"]] =
               <<"Tuesday", "Wednesday", "Monday", "Thursday", "Friday", "Saturday">>

\* C9 as stated: a week in which at least one workout has a day field comes
\* out of the call exactly as it went in.
C9_AnyDayFreezesWeek ==
    runs = 1 =>
        \A w \in WeekIds :
            (\E i \in DOMAIN Before(w) : HasDay(Before(w)[i]))
            => After(w) = Before(w)

\* C9 amended: a week in which every workout has a day field comes out of
\* the call exactly as it went in, whatever the other weeks contain.
C9_AllDaysFreezeWeek ==
    runs = 1 =>
        \A w \in WeekIds :
            (/\ Before(w) # <<>>
             /\ \A i \in DOMAIN Before(w) : HasDay(Before(w)[i]))
            => After(w) = Before(w)

C9_Witness ==
    /\ runs = 1
    /\ program_data # original
    /\ \E w \in WeekIds :
        /\ Before(w) # <<>>
        /\ \A i \in DOMAIN Before(w) : HasDay(Before(w)[i])
        /\ After(w) = Before(w)

\* C10: every workout that has a day field before the call has the same day
\* afterwards, and a week in which every workout has a day is unchanged.
C10_PresetDaysKept ==
    runs = 1 =>
        \A w \in WeekIds :
            /\ \A i \in DOMAIN Before(w) :
                  HasDay(Before(w)[i]) =>
                      /\ HasDay(After(w)[i])
                      /\ After(w)[i]["day"] = Before(w)[i]["day"]
            /\ (\A i \in DOMAIN Before(w) : HasDay(Before(w)[i])) => After(w) = Before(w)

\* C11: a call of assign_weekdays_to_workouts on the output of an earlier
\* call leaves the structure exactly as it was.
C11_Idempotent == [][runs >= 1 => program_data' = program_data]_vars

\* The second call ran on a week that still had a workout without a day (more
\* than seven workouts), so it went through the assignment again.
C11_Witness ==
    /\ runs = 2
    /\ program_data # original
    /\ \E w \in WeekIds : \E i \in DOMAIN After(w) : ~HasDay(After(w)[i])

\* A dict without its day entry.
WithoutDay(d) == [k \in (DOMAIN d) \ {"day"} |-> d[k]]

\* C12: after a call the structure has the same weeks in the same order, each
\* week the same workouts in the same order, and nothing differs from the
\* input except day entries of workouts.
C12_OnlyAnnotates ==
    runs >= 1 =>
        /\ DOMAIN program_data = DOMAIN original
        /\ Len(program_data.weeks) = Len(original.weeks)
        /\ \A w \in WeekIds :
            /\ DOMAIN program_data.weeks[w] = DOMAIN original.weeks[w]
            /\ program_data.weeks[w].week_number = original.weeks[w].week_number
            /\ Len(After(w)) = Len(Before(w))
            /\ \A i \in DOMAIN Before(w) :
                  WithoutDay(After(w)[i]) = WithoutDay(Before(w)[i])

\* A call that assigned days in a week whose rest workout is not listed first.
C12_Witness ==
    /\ runs = 1
    /\ \E w \in WeekIds :
        /\ Len(Before(w)) >= 3
        /\ ~IsRest(Before(w)[1])
        /\ IsRest(Before(w)[2])
        /\ ~HasDay(Before(w)[1])
        /\ After(w)[2]["day"] = "Monday"
        /\ After(w)[1]["day"] = "Tuesday"

(***************************************************************************)
(* Properties of generate_program and its callers                          *)
(***************************************************************************)
Finished == gpc \in {"returned", "raised", "done"}

Failed == failure.text # ""

\* C13: a request of at most 6 weeks is served by exactly one whole-program
\* completion request; a longer one by week requests only, one per week
\* generated (the week that failed included) and none for the whole program.
C13_ModeAndCallCount ==
    /\ (duration_weeks <= 6 /\ Finished) =>
           /\ Len(requests) = 1
           /\ requests[1].kind = "program"
    /\ (duration_weeks > 6) =>
           /\ \A i \in DOMAIN requests :
                 requests[i].kind = "week" /\ requests[i].week_number = i
           /\ Len(requests) = Len(weeks) + (IF Failed THEN 1 ELSE 0)
           /\ program # NoProgram => Len(requests) = Len(program.weeks)

C13_Witness ==
    /\ gpc = "done"
    /\ status = 200
    /\ duration_weeks = 7
    /\ Len(requests) = 7
    /\ Len(program.weeks) = 7

\* C14: the phase counts of progressive mode are base = floor(0.6 n),
\* build = floor(0.25 n), peak = max(1, floor(0.1 n)) and taper the rest;
\* 12 weeks give 7/3/1/1 and 10 weeks give 6/2/1/1.
C14_Periodization ==
    (duration_weeks > 6 /\ gpc # "request") =>
        /\ Len(counts) = 4
        /\ 10 * counts[1] <= 6 * duration_weeks
        /\ 6 * duration_weeks < 10 * (counts[1] + 1)
        /\ 100 * counts[2] <= 25 * duration_weeks
        /\ 25 * duration_weeks < 100 * (counts[2] + 1)
        /\ counts[3] >= 1
        /\ \/ counts[3] = 1 /\ duration_weeks < 20
           \/ 10 * counts[3] <= duration_weeks /\ duration_weeks < 10 * (counts[3] + 1)
        /\ counts[4] = duration_weeks - counts[1] - counts[2] - counts[3]
        /\ duration_weeks = 12 => counts = <<7, 3, 1, 1>>
        /\ duration_weeks = 10 => counts = <<6, 2, 1, 1>>

C14_Witness ==
    /\ duration_weeks = 12
    /\ counts = <<7, 3, 1, 1>>
    /\ gpc = "returned"
    /\ Len(program.weeks) = 12

\* C15: the k-th WeekPlan of a program returned by progressive mode has
\* week_number k, whatever week number the provider wrote.
C15_WeekNumbersSequential ==
    (duration_weeks > 6 /\ program # NoProgram) =>
        \A k \in DOMAIN program.weeks : program.weeks[k].week_number = k

\* The last completion cannot become a WeekPlan.
WeekUnusable ==
    \/ completion.raised
    \/ completion.content \notin {ObjectText, FencedObjectText}
    \/ completion.json \in InvalidWeekObjects

\* C16: once a week of progressive mode fails, generate_program has raised,
\* there is no program, nothing is or will be saved and no further week is
\* requested.
C16_AllOrNothing ==
    /\ [](duration_weeks > 6 /\ requests # <<>> /\ WeekUnusable =>
            /\ gpc \in {"raised", "done"}
            /\ Failed
            /\ program = NoProgram
            /\ saved = <<>>
            /\ status \in {0, 500})
    /\ [][duration_weeks > 6 /\ requests # <<>> /\ WeekUnusable =>
            /\ requests' = requests
            /\ saved' = <<>>
            /\ program' = NoProgram]_vars

C16_Witness ==
    /\ duration_weeks = 10
    /\ Len(weeks) = 4
    /\ Len(requests) = 5
    /\ completion.json.workouts = NullDayWorkouts
    /\ status = 500
    /\ saved = <<>>

\* C17: a completion whose finish_reason is 'length' makes the generation
\* fail with the token-limit failure, in direct mode and for every week of
\* progressive mode.
C17_TruncationReported ==
    (requests # <<>> /\ ~completion.raised /\ completion.finish_reason = "length") =>
        failure.text = "Model hit token limit (finish_reason='length')."

\* C18: a completion whose extracted text is empty makes the generation fail
\* with the no-content failure carrying the finish_reason, in direct mode and
\* for every week of progressive mode, never with the invalid-JSON failure.
C18_EmptyReported ==
    (requests # <<>> /\ ~completion.raised /\ completion.content \in {NoContent, <<" ">>}) =>
        /\ failure.text = "Model returned no content."
        /\ failure.finish_reason = completion.finish_reason

\* A week object with more than seven workouts, none with a day
Overflowing(week) ==
    /\ Len(week.workouts) > 7
    /\ \A i \in DOMAIN week.workouts : "day" \notin DOMAIN week.workouts[i]

\* C19: every workout of every week of a returned program has one of the seven
\* weekdays as its day and swim, bike or run as its sport; a completion with
\* an overflowing week yields a failure and no program.
C19_ValidatedOutput ==
    /\ \A k \in DOMAIN program.weeks :
          \A i \in DOMAIN program.weeks[k].workouts :
              LET workout == program.weeks[k].workouts[i]
              IN  /\ "day" \in DOMAIN workout
                  /\ workout.day \in {"Monday", "Tuesday", "Wednesday", "Thursday",
                                      "Friday", "Saturday", "Sunday"}
                  /\ workout.sport \in {<<"swim">>, <<"bike">>, <<"run">>}
    /\ (/\ requests # <<>>
        /\ ~completion.raised
        /\ \/ "workouts" \in DOMAIN completion.json /\ Overflowing(completion.json)
           \/ /\ "weeks" \in DOMAIN completion.json
              /\ \E k \in DOMAIN completion.json.weeks : Overflowing(completion.json.weeks[k]))
       => program = NoProgram /\ Failed

\* A returned program whose days were assigned and whose sports were coerced
C19_Witness ==
    /\ gpc = "returned"
    /\ profile.shape = "undated"
    /\ Len(program.weeks) >= 4
    /\ program.weeks[1].workouts[2].sport = <<"swim">>
    /\ program.weeks[1].workouts[2].day = "Monday"
    /\ program.weeks[1].workouts[3].sport = <<"bike">>

(***************************************************************************)
(* Properties of _extract_json_object_text                                 *)
(***************************************************************************)
\* The text without its leading and trailing whitespace tokens.
Trimmed(s) ==
    LET solid == {i \in DOMAIN s : s[i] # " "}
    IN  IF solid = {} THEN <<>>
        ELSE SubSeq(s, CHOOSE i \in solid : \A j \in solid : i <= j,
                       CHOOSE i \in solid : \A j \in solid : i >= j)

Least(S) == CHOOSE i \in S : \A j \in S : i <= j

Greatest(S) == CHOOSE i \in S : \A j \in S : i >= j

\* Positions where a fence tagged json starts.
TagAt(s) == {i \in DOMAIN s : s[i] = Fence /\ i + 1 \in DOMAIN s /\ s[i + 1] = "json"}

\* The content between the first tag and the next fence (or the end).
TaggedBody(s) ==
    LET start == Least(TagAt(s)) + 2
        closing == {i \in DOMAIN s : i >= start /\ s[i] = Fence}
    IN  SubSeq(s, start, IF closing = {} THEN Len(s) ELSE Least(closing) - 1)

Opening(s) == {i \in DOMAIN s : s[i] = "{"}

Closing(s) == {i \in DOMAIN s : s[i] = "}"}

\* C20: when the trimmed text has a fence tagged json and the content between
\* the tag and the next fence holds a { with a } after it, the result is that
\* content from its first { to its last }; a text without fence that starts
\* with { and ends with } is returned unchanged.
C20_FencedJson ==
    extracted # Unset =>
        /\ (/\ TagAt(Trimmed(content)) # {}
            /\ Opening(TaggedBody(Trimmed(content))) # {}
            /\ Closing(TaggedBody(Trimmed(content))) # {}
            /\ Greatest(Closing(TaggedBody(Trimmed(content)))) >
                   Least(Opening(TaggedBody(Trimmed(content)))))
           => extracted = SubSeq(TaggedBody(Trimmed(content)),
                                 Least(Opening(TaggedBody(Trimmed(content)))),
                                 Greatest(Closing(TaggedBody(Trimmed(content)))))
        /\ (/\ \A i \in DOMAIN content : content[i] # Fence
            /\ content # <<>>
            /\ content[1] = "{"
            /\ content[Len(content)] = "}")
           => extracted = content

\* Prose, a tagged fence, an object with a nested object, the closing fence.
C20_Witness ==
    /\ content = <<"x", Fence, "json", "{", "}", "}">> \/ content = <<"x", Fence, "json", "{", "}", Fence>>
    /\ extracted # Unset
    /\ extracted[1] = "{"
    /\ extracted[Len(extracted)] = "}"

\* The text handed in, None read as the empty text.
Given == IF content = NoContent THEN <<>> ELSE content

NoBraces == \A i \in DOMAIN Given : Given[i] \notin {"{", "}"}

FenceAt(s) == {i \in DOMAIN s : s[i] = Fence}

\* The content between the first fence and the next one (or the end).
FencedBody(s) ==
    LET start == Least(FenceAt(s)) + 1
        closing == {i \in DOMAIN s : i >= start /\ s[i] = Fence}
    IN  SubSeq(s, start, IF closing = {} THEN Len(s) ELSE Least(closing) - 1)

\* C21 as stated: a text without { and } comes back as the trimmed input,
\* whether or not it contains fence delimiters.
C21_DegenerateUnchanged ==
    (extracted # Unset /\ NoBraces) => extracted = Trimmed(Given)

\* C21: a text without { and } comes back as the trimmed input when it has no
\* fence delimiter, and otherwise as the trimmed content of its first block
\* tagged json or, without such a block, of its first fenced block.
C21_DegenerateTrimmed ==
    (extracted # Unset /\ NoBraces) =>
        /\ FenceAt(Given) = {} => extracted = Trimmed(Given)
        /\ TagAt(Trimmed(Given)) # {} =>
               extracted = Trimmed(TaggedBody(Trimmed(Given)))
        /\ (FenceAt(Given) # {} /\ TagAt(Trimmed(Given)) = {}) =>
               extracted = Trimmed(FencedBody(Trimmed(Given)))

\* Whitespace on both sides of a text without braces and fences
C21_Witness ==
    /\ content = <<" ", "x", " ", "json", "x", " ">>
    /\ extracted = <<"x", " ", "json", "x">>

(***************************************************************************)
(* Properties of Workout.lowercase_sport                                   *)
(***************************************************************************)
Has(v, word) == \E i \in DOMAIN v : v[i] = word

Words == {<<"swim">>, <<"bike">>, <<"run">>}

\* The clauses (a)-(d) applied to the text v, giving r.
Clauses(v, r) ==
    /\ (Has(v, "bike") /\ Has(v, "run")) => r = <<"bike">>
    /\ v = <<"rest">> => r = <<"swim">>
    /\ v \in Words => r = v
    /\ (~(Has(v, "bike") /\ Has(v, "run")) /\ v # <<"rest">> /\ v \notin Words)
           => r = <<"run">>
    /\ r \in Words

\* C22 as stated: the clauses (a)-(d) hold of the sport string as given.
C22_CoercionOfInput ==
    (coerced # Unset /\ sport # NullSport) => Clauses(sport, coerced)

\* The sport string in lower case, without the whitespace around it.
Normalised(v) ==
    Trimmed([i \in DOMAIN v |->
                IF v[i] = "Swim" THEN "swim"
                ELSE IF v[i] = "Bike" THEN "bike"
                ELSE IF v[i] = "Run" THEN "run"
                ELSE IF v[i] = "Rest" THEN "rest"
                ELSE v[i]])

\* C22: the clauses (a)-(d) hold of the sport string once it is lowercased
\* and trimmed, and the result is always swim, bike or run.
C22_CoercionOfNormalised ==
    (coerced # Unset /\ sport # NullSport) => Clauses(Normalised(sport), coerced)

\* A capitalised brick workout with whitespace around it
C22_Witness ==
    /\ sport = <<" ", "Bike", "Run">>
    /\ coerced = <<"bike">>

C24_SingleWeekValidated ==
    week_data # NoWeek =>
        /\ {"week_number", "focus", "workouts"} \subseteq DOMAIN week_data
        /\ \A i \in DOMAIN week_data.workouts :
              LET workout == week_data.workouts[i]
              IN  /\ "day" \in DOMAIN workout
                  /\ workout.day \in {"Monday", "Tuesday", "Wednesday", "Thursday",
                                      "Friday", "Saturday", "Sunday"}
                  /\ workout.sport \in {<<"swim">>, <<"bike">>, <<"run">>}

(***************************************************************************)
(* Properties of the fallback ladder as a whole                            *)
(***************************************************************************)
\* C25: when the base call is rejected for JSON mode and the resubmission
\* without JSON mode is rejected for the new-style length parameter, a third
\* call follows that has no JSON mode and carries the legacy max_tokens.
C25_StepsCompose ==
    (/\ pc = "done"
     /\ Len(replies) >= 2
     /\ "response_format" \in DOMAIN calls[1]
     /\ ~replies[1].ok
     /\ JsonModeText(replies[1].text)
     /\ ~TemperatureText(replies[1].text)
     /\ "response_format" \notin DOMAIN calls[2]
     /\ ~replies[2].ok
     /\ NewLengthText(replies[2].text)
     /\ ~TemperatureText(replies[2].text))
    => /\ Len(calls) >= 3
       /\ "max_tokens" \in DOMAIN calls[3]
       /\ "response_format" \notin DOMAIN calls[3]

\* The token budget a request carries, under either name.
BudgetOf(call) ==
    {call[k] : k \in {"max_completion_tokens", "max_tokens"} \cap DOMAIN call}

\* C29: every call of one invocation carries the same model, messages and
\* budget value; temperature and JSON mode, once absent from a call, are
\* absent from every later call, and are never sent unless requested.
C29_MonotoneAdaptation ==
    /\ \A i \in DOMAIN calls :
          /\ calls[i]["model"] = calls[1]["model"]
          /\ calls[i]["messages"] = calls[1]["messages"]
          /\ BudgetOf(calls[i]) = {max_output_tokens}
          /\ "temperature" \in DOMAIN calls[i] => temperature # None
          /\ "response_format" \in DOMAIN calls[i] => json_object
    /\ \A i, j \in DOMAIN calls :
          i < j =>
              /\ "temperature" \in DOMAIN calls[j] => "temperature" \in DOMAIN calls[i]
              /\ "response_format" \in DOMAIN calls[j] =>
                     "response_format" \in DOMAIN calls[i]

\* Temperature removed, then JSON mode removed, over three calls
C29_Witness ==
    /\ pc = "done"
    /\ Len(calls) = 3
    /\ steps = <<"temperature", "response_format">>
    /\ DOMAIN calls[1] = {"model", "messages", "temperature", "response_format",
                          "max_completion_tokens"}
    /\ DOMAIN calls[3] = {"model", "messages", "max_completion_tokens"}

\* C30: no resubmission carries exactly the parameters of the call whose
\* rejection triggered it.
C30_ResubmissionDiffers ==
    \A i \in DOMAIN calls : i > 1 => DOMAIN calls[i] # DOMAIN calls[i - 1]

(***************************************************************************)
(* Properties of assign_weekdays_to_workouts on overfull weeks             *)
(***************************************************************************)
SevenDays ==
    <<"Monday", "Tuesday", "Wednesday", "Thursday", "Friday", "Saturday", "Sunday">>

\* C27: in a week of more than 7 workouts without day fields, one call gives
\* each of the seven weekdays to exactly one workout, in the order first rest
\* workout, active workouts, further rest workouts, leaves every other
\* workout without a day field, and returns.
C27_OverflowKeepsSeven ==
    runs = 1 =>
        \A w \in WeekIds :
            (/\ Len(Before(w)) > 7
             /\ \A i \in DOMAIN Before(w) : ~HasDay(Before(w)[i]))
            => /\ Len(After(w)) = Len(Before(w))
               /\ \A d \in 1 .. 7 :
                     Cardinality({i \in DOMAIN After(w) :
                                     HasDay(After(w)[i]) /\ After(w)[i]["day"] = SevenDays[d]}) = 1
               /\ \A i \in DOMAIN After(w) :
                     IF PolicyDay(Before(w), i) <= 7
                     THEN /\ HasDay(After(w)[i])
                          /\ After(w)[i]["day"] = SevenDays[PolicyDay(Before(w), i)]
                     ELSE ~HasDay(After(w)[i])

\* Eight workouts, the last one the only rest workout: it gets Monday, the
\* first six active ones Tuesday .. Sunday, the seventh active one no day.
C27_Witness ==
    /\ runs = 1
    /\ \E w \in WeekIds :
        /\ Len(Before(w)) = 8
        /\ \A i \in DOMAIN Before(w) : ~HasDay(Before(w)[i])
        /\ IsRest(Before(w)[8])
        /\ \A i \in 1 .. 7 : ~IsRest(Before(w)[i])
        /\ After(w)[8]["day"] = "Monday"
        /\ After(w)[6]["day"] = "Sunday"
        /\ ~HasDay(After(w)[7])

(***************************************************************************)
(* Properties of progressive mode                                          *)
(***************************************************************************)
PhaseRank(name) ==
    CASE name = "Base" -> 1
      [] name = "Build" -> 2
      [] name = "Peak" -> 3
      [] name = "Taper" -> 4

\* C26: the week requests of progressive mode carry the week numbers 1, 2,
\* 3, ... and phase labels in the order Base, Build, Peak, Taper, and are
\* made one at a time, each after the previous one was answered.
C26_CallOrdering ==
    /\ [](duration_weeks > 6 =>
            /\ \A i \in DOMAIN requests :
                  /\ requests[i].kind = "week"
                  /\ requests[i].week_number = i
                  /\ requests[i].phase \in {"Base", "Build", "Peak", "Taper"}
            /\ \A i \in DOMAIN requests :
                  i > 1 => PhaseRank(requests[i - 1].phase) <= PhaseRank(requests[i].phase))
    /\ [][duration_weeks > 6 /\ requests' # requests =>
            /\ Len(requests') = Len(requests) + 1
            /\ SubSeq(requests', 1, Len(requests)) = requests
            /\ (completion'.raised \/ completion'.finish_reason \in {"stop", "length"})]_vars

C26_Witness ==
    /\ gpc = "returned"
    /\ duration_weeks = 10
    /\ Len(requests) = 10
    /\ \A i \in 1 .. 6 : requests[i].phase = "Base"
    /\ requests[7].phase = "Build"
    /\ requests[8].phase = "Build"
    /\ requests[9].phase = "Peak"
    /\ requests[10].phase = "Taper"

\* C28: for a duration of 7 to 52 weeks the taper allocation is at least 1
\* and the four allocations add up to the duration; a program returned by
\* progressive mode has that many WeekPlans and the goal, fitness level and
\* duration of the request.
C28_ProgressiveWeekCount ==
    (duration_weeks >= 7 /\ duration_weeks <= 52) =>
        /\ gpc # "request" =>
              /\ Len(counts) = 4
              /\ counts[4] >= 1
              /\ counts[1] + counts[2] + counts[3] + counts[4] = duration_weeks
        /\ program # NoProgram =>
              /\ Len(program.weeks) = duration_weeks
              /\ program.duration_weeks = duration_weeks
              /\ program.goal = goal
              /\ program.fitness_level = fitness_level

C28_Witness ==
    /\ gpc = "done"
    /\ status = 200
    /\ duration_weeks = 8
    /\ goal = "olympic"
    /\ saved[1].goal = "olympic"
    /\ saved[1].fitness_level = "advanced"
    /\ Len(saved[1].weeks) = 8

====
